---- MODULE Spec2Model ----
(***************************************************************************)
(* Model of alphamodel/model.py: the data pipeline of                      *)
(* Model._fetch_return_data and the save/load/_fetch_data lifecycle.       *)
(*                                                                         *)
(* A cell of a table is a sequence: <<>> is a missing value (NaN/None),    *)
(* <<v>> a number, <<n, d>> the quotient n/d (a simple return),            *)
(* <<lo, hi>> in a sigma matrix the value |log(open) - log(close)| =       *)
(* log(hi/lo).  A date is a positive integer; an index is a set of dates   *)
(* read in ascending order.  A DataFrame is a record                       *)
(* [columns, index, at] with at[c][d] the cell of column c at date d.      *)
(***************************************************************************)
EXTENDS Integers, Sequences, FiniteSets, TLC

\* ------------------------------------------------------------- bounds
\* Leading dates whose rows vary from table to table.
VarRows == 2
\* Following dates on which every table has a clean row.
PadRows == 48

Dates == 1..(VarRows + PadRows)
VarDates == 1..VarRows

\* ------------------------------------------------------------- cells
NaN == <<>>
IsNull(c) == c = NaN
Range(s) == {s[i] : i \in DOMAIN s}
MinOf(S) == CHOOSE x \in S : \A y \in S : x <= y
EmptyFrame == [columns |-> <<>>, index |-> {}, at |-> [c \in {} |-> <<>>]]

\* ------------------------------------------------------------- inputs
\* The tables the data source can return (an OHLCV-like table per ticker).
\* kind: "ohlcv" has Open/Close/Volume, "adj" adds Adj. Close and
\* Adj. Volume, "value" has Value alone.  One defect per table, on the
\* dates S: "gone" the dates are not in the table, "nanp"/"nano"/"nanv" the
\* price/open/volume cell is missing, "lo"/"hi" the price is off.
\* A clean price is 4; a "lo" price 1 is followed by a return of +3.0 and a
\* "hi" price 16 by one of -0.75.  The risk-free table holds rates: 0, or
\* 75000 ("hi", on the dates after those of S), which compounds by
\* 1 + 75000/25000 = 4, a return of +3.0 on that date.
PriceCell(defect, S, d) ==
    IF defect = "nanp" /\ d \in S THEN NaN
    ELSE IF defect = "lo" /\ d \in S THEN <<1>>
    ELSE IF defect = "hi" /\ d \in S THEN <<16>>
    ELSE <<4>>

RateCell(defect, S, d) ==
    IF defect = "nanp" /\ d \in S THEN NaN
    ELSE IF defect = "hi" /\ d - 1 \in S THEN <<75000>>
    ELSE <<0>>

MkTable(kind, defect, S) ==
    LET idx == IF defect = "gone" THEN Dates \ S ELSE Dates
        price == [d \in idx |-> PriceCell(defect, S, d)]
        open == [d \in idx |-> IF defect = "nano" /\ d \in S THEN NaN ELSE <<4>>]
        vol == [d \in idx |-> IF defect = "nanv" /\ d \in S THEN NaN ELSE <<1>>]
    IN  CASE kind = "ohlcv" ->
               [index |-> idx,
                col |-> [f \in {"Open", "Close", "Volume"} |->
                           IF f = "Open" THEN open ELSE IF f = "Close" THEN price ELSE vol]]
          [] kind = "adj" ->
               [index |-> idx,
                col |-> [f \in {"Adj. Close", "Close", "Open", "Adj. Volume", "Volume"} |->
                           IF f = "Adj. Close" THEN price
                           ELSE IF f = "Close" THEN [d \in idx |-> <<16>>]
                           ELSE IF f = "Open" THEN open
                           ELSE IF f = "Adj. Volume" THEN vol
                           ELSE [d \in idx |-> <<2>>]]]
          [] kind = "value" ->
               [index |-> idx, col |-> [f \in {"Value"} |-> price]]
          [] kind = "rate" ->
               [index |-> idx, col |-> [f \in {"Value"} |-> [d \in idx |-> RateCell(defect, S, d)]]]

DefectSets == (SUBSET VarDates) \ {{}}

\* data_source.get(ticker, start_date, end_date): the rows of the ticker's
\* table between the two dates.
Get(table, start_date, end_date) ==
    LET idx == {d \in table.index : start_date <= d /\ d <= end_date}
    IN  [index |-> idx,
         col |-> [f \in DOMAIN table.col |-> [d \in idx |-> table.col[f][d]]]]

TablesFor(ticker) ==
    CASE ticker = "A" ->
           {MkTable("ohlcv", "none", {}), MkTable("adj", "none", {}), MkTable("value", "none", {})}
           \cup {MkTable("ohlcv", df, S) :
                   df \in {"gone", "nanp", "nano", "nanv", "lo", "hi"}, S \in DefectSets}
      [] ticker = "B" -> {MkTable("ohlcv", "none", {})}
      [] ticker = "RF" ->
           {MkTable("rate", "none", {})}
           \cup {MkTable("rate", df, S) : df \in {"gone", "nanp", "hi"}, S \in DefectSets}

\* The tickers for which the data source may have no table.
Unlisted == {"A", "RF"}

Universes ==
    { <<"A", "RF">>, <<"RF", "A">>, <<"A", "B", "RF">>, <<"A", "RF", "B">>,
      <<"A", "RF", "A">> }

\* ------------------------------------------------------------- pandas
\* select_first_valid_column: <<series>> for the first listed field the
\* table has, <<>> (None) when it has none of them.
SelectFirstValidColumn(df, columns) ==
    LET hits == {i \in 1..Len(columns) : columns[i] \in DOMAIN df.col}
    IN  IF hits = {} THEN <<>> ELSE <<df.col[columns[MinOf(hits)]]>>

\* The keys of dict(zip(keys, ...)): first occurrences, in order.
Dedup(s) ==
    LET firsts == {k \in DOMAIN s : \A j \in 1..(k - 1) : s[j] # s[k]}
    IN  [n \in 1..Cardinality(firsts) |->
            s[CHOOSE k \in firsts : Cardinality({j \in firsts : j < k}) = n - 1]]

\* pd.DataFrame.from_dict of {k: sel[k]}: raises when every value is a
\* scalar (None) and there is a key.
AllScalar(keys, sel) == keys # <<>> /\ \A k \in Range(keys) : sel[k] = <<>>

\* The frame: index the union of the series' indexes, a None column or a
\* date outside a series missing.
FromDict(keys, sel) ==
    LET cols == Dedup(keys)
        idx == UNION {DOMAIN sel[k][1] : k \in {x \in Range(keys) : sel[x] # <<>>}}
    IN  [columns |-> cols,
         index |-> idx,
         at |-> [c \in Range(cols) |->
                   [d \in idx |->
                      IF sel[c] = <<>> THEN NaN
                      ELSE IF d \in DOMAIN sel[c][1] THEN sel[c][1][d] ELSE NaN]]]

\* np.abs(np.log(open) - np.log(close)) on the two frames aligned (outer).
AbsLogDiff(o, c) ==
    IF IsNull(o) \/ IsNull(c) THEN NaN
    ELSE <<IF o[1] <= c[1] THEN o[1] ELSE c[1], IF o[1] <= c[1] THEN c[1] ELSE o[1]>>

CellAt(df, c, d) ==
    IF c \in DOMAIN df.at /\ d \in df.index THEN df.at[c][d] ELSE NaN

Sigmas(open_price, close_price) ==
    LET idx == open_price.index \cup close_price.index
    IN  [columns |-> open_price.columns,
         index |-> idx,
         at |-> [c \in Range(open_price.columns) |->
                   [d \in idx |-> AbsLogDiff(CellAt(open_price, c, d),
                                             CellAt(close_price, c, d))]]]

\* prices[rf] = 10000 * (1 + prices[rf] / (100 * 250)).cumprod(): the running
\* product skips missing cells and leaves them missing.  The rates of the
\* input tables are multiples of 100 * 250, on which the division is exact.
RiskFreeBase == 10000
CumProd(col, idx, d) ==
    LET prod[e \in 0..d] ==
            IF e = 0 THEN 1
            ELSE IF e \in idx /\ ~IsNull(col[e])
                 THEN ((100 * 250 + col[e][1]) \div (100 * 250)) * prod[e - 1]
                 ELSE prod[e - 1]
    IN  prod[d]

FixRiskFree(prices, rf) ==
    [prices EXCEPT !.at[rf] =
        [d \in prices.index |->
            IF IsNull(prices.at[rf][d]) THEN NaN
            ELSE <<RiskFreeBase * CumProd(prices.at[rf], prices.index, d)>>]]

NullCountCol(df, c) == Cardinality({d \in df.index : IsNull(df.at[c][d])})
NullCountRow(df, d) == Cardinality({c \in Range(df.columns) : IsNull(df.at[c][d])})

\* A filter that also drops a column with exactly 2% missing.
BadAssetsNaN_AtLeast(prices) ==
    {c \in Range(prices.columns) :
        100 * Cardinality({d \in prices.index : prices.at[c][d] = NaN})
            >= 2 * Cardinality(prices.index)}

\* prices.columns[prices.isnull().sum() > len(prices) * 0.02]
BadAssetsNaN(prices) ==
    {c \in Range(prices.columns) :
        100 * NullCountCol(prices, c) > 2 * Cardinality(prices.index)}

\* df.loc[:, ~df.columns.isin(bad)]
DropColumns(df, bad) ==
    LET keep(c) == c \notin bad
        cols == SelectSeq(df.columns, keep)
    IN  [columns |-> cols, index |-> df.index, at |-> [c \in Range(cols) |-> df.at[c]]]

\* df.index[df.isnull().sum(1) > nassets * .9]
BadDaysOf(df, nassets) ==
    {d \in df.index : 10 * NullCountRow(df, d) > 9 * nassets}

BadDays(prices, sigmas, volumes) ==
    LET nassets == Len(prices.columns)
    IN  BadDaysOf(sigmas, nassets) \cup BadDaysOf(prices, nassets)
          \cup BadDaysOf(volumes, nassets)

\* df.loc[~df.index.isin(bad_days)]
DropRows(df, bad) ==
    [columns |-> df.columns,
     index |-> df.index \ bad,
     at |-> [c \in Range(df.columns) |-> [d \in df.index \ bad |-> df.at[c][d]]]]

\* The last date of idx before d (0: none), and the last date up to d whose
\* cell is not missing (0: none).  Dates are positive.
PrevDate(idx, d) ==
    LET before == {e \in idx : e < d /\ \A y \in (e + 1)..(d - 1) : y \notin idx}
    IN  IF before = {} THEN 0 ELSE CHOOSE e \in before : TRUE

LastValid(col, idx, d) ==
    IF d \in idx /\ ~IsNull(col[d]) THEN d
    ELSE LET valid == {e \in idx : /\ e < d /\ ~IsNull(col[e])
                                   /\ \A y \in (e + 1)..(d - 1) : y \in idx => IsNull(col[y])}
         IN  IF valid = {} THEN 0 ELSE CHOOSE e \in valid : TRUE

\* df.fillna(method='ffill')
Ffill(df) ==
    [df EXCEPT !.at =
        [c \in Range(df.columns) |->
            [d \in df.index |->
                LET e == LastValid(df.at[c], df.index, d)
                IN  IF e = 0 THEN NaN ELSE df.at[c][e]]]]

\* A frame that keeps its first row.
DropFirstRow_Keep(df) == df

\* df.iloc[1:]
DropFirstRow(df) ==
    IF df.index = {} THEN df ELSE DropRows(df, {MinOf(df.index)})

\* volumes * prices, aligned on the union of the two indexes.
DollarVolumes(volumes, prices) ==
    LET idx == volumes.index \cup prices.index
    IN  [columns |-> volumes.columns,
         index |-> idx,
         at |-> [c \in Range(volumes.columns) |->
                   [d \in idx |->
                      LET v == CellAt(volumes, c, d)
                          p == CellAt(prices, c, d)
                      IN  IF IsNull(v) \/ IsNull(p) THEN NaN ELSE <<v[1] * p[1]>>]]]

\* prices.diff() / prices.shift(1)
SimpleReturns(prices) ==
    [prices EXCEPT !.at =
        [c \in Range(prices.columns) |->
            [d \in prices.index |->
                LET e == PrevDate(prices.index, d)
                IN  IF e = 0 THEN NaN
                    ELSE LET cur == prices.at[c][d]
                             prev == prices.at[c][e]
                         IN  IF IsNull(cur) \/ IsNull(prev) THEN NaN
                             ELSE <<cur[1] - prev[1], prev[1]>>]]]

\* (prices.diff() / prices.shift(1)).fillna(method='ffill').iloc[1:]
Returns(prices) == DropFirstRow(Ffill(SimpleReturns(prices)))

\* -.5 > r, r > 2. for a return r = n/d with d > 0
BelowHalf(r) == ~IsNull(r) /\ 2 * r[1] < -r[2]
AboveTwo(r) == ~IsNull(r) /\ r[1] > 2 * r[2]

\* A filter that looks at the returns above 2.0 alone.
BadAssetsReturns_AboveOnly(returns) ==
    {c \in Range(returns.columns) :
        \E d \in returns.index : AboveTwo(returns.at[c][d])}

\* returns.columns[((-.5 > returns).sum() > 0) | ((returns > 2.).sum() > 0)]
BadAssetsReturns(returns) ==
    {c \in Range(returns.columns) :
        \/ Cardinality({d \in returns.index : BelowHalf(returns.at[c][d])}) > 0
        \/ Cardinality({d \in returns.index : AboveTwo(returns.at[c][d])}) > 0}

\* df.iloc[:, :-1]
DropLastColumn(df) ==
    LET cols == IF df.columns = <<>> THEN <<>>
                ELSE SubSeq(df.columns, 1, Len(df.columns) - 1)
    IN  [columns |-> cols, index |-> df.index, at |-> [c \in Range(cols) |-> df.at[c]]]

\* ------------------------------------------------------------- state
VARIABLES
    universe,           \* self.universe
    risk_free_symbol,   \* self.risk_free_symbol
    realized,           \* self.realized
    pc,                 \* position in _fetch_return_data
    i,                  \* position of the download loop in the universe
    data,               \* ticker -> fetched table
    prices, sigmas, volumes, returns,
    raised,             \* the exception _fetch_return_data ended with
    name,               \* self.name
    cfg,                \* self.cfg
    today,              \* datetime.today(), as a day number
    files,              \* filename -> pickled __dict__
    last                \* the last call made on the model and how it ended

vars == <<universe, risk_free_symbol, realized, pc, i, data,
          prices, sigmas, volumes, returns, raised, name, cfg, today, files, last>>

life == <<name, cfg, today, files, last>>

EmptyDict == [k \in {} |-> <<>>]

\* The n-th call on the model: which method, on which calendar date, what
\* it returned or raised, and how many times it called the data source and
\* the factor source.
Call(day, n, op, result, ds, ff) ==
    [day |-> day, n |-> n, op |-> op, result |-> result, ds_calls |-> ds, ff_calls |-> ff]

Init ==
    /\ universe \in Universes
    /\ risk_free_symbol = "RF"
    /\ realized = EmptyDict
    /\ pc = "download"
    /\ i = 1
    /\ data = EmptyDict
    /\ prices = EmptyFrame
    /\ sigmas = EmptyFrame
    /\ volumes = EmptyFrame
    /\ returns = EmptyFrame
    /\ raised = "none"
    /\ name = "m1"
    /\ cfg = [start_date |-> 1, end_date |-> VarRows + PadRows]
    /\ today = 1
    /\ files = EmptyDict
    /\ last = Call(1, 0, "__init__", "none", 0, 0)

\* ------------------------------------------------------------- download loop
\* if ticker in data: continue
DownloadSkip ==
    /\ pc = "download" /\ i <= Len(universe)
    /\ universe[i] \in DOMAIN data
    /\ i' = i + 1
    /\ UNCHANGED <<universe, risk_free_symbol, realized, pc, data,
                   prices, sigmas, volumes, returns, raised, life>>

\* fetched is None
DownloadNone ==
    /\ pc = "download" /\ i <= Len(universe)
    /\ universe[i] \notin DOMAIN data
    /\ universe[i] \in Unlisted
    /\ i' = i + 1
    /\ UNCHANGED <<universe, risk_free_symbol, realized, pc, data,
                   prices, sigmas, volumes, returns, raised, life>>

\* data[ticker] = fetched
DownloadTable ==
    /\ pc = "download" /\ i <= Len(universe)
    /\ universe[i] \notin DOMAIN data
    /\ \E table \in TablesFor(universe[i]) :
         LET fetched == Get(table, cfg.start_date, cfg.end_date)
         IN  data' = [t \in DOMAIN data \cup {universe[i]} |->
                    IF t = universe[i] THEN fetched ELSE data[t]]
    /\ i' = i + 1
    /\ UNCHANGED <<universe, risk_free_symbol, realized, pc,
                   prices, sigmas, volumes, returns, raised, life>>

\* ------------------------------------------------------------- extraction
Keys(u, dt) ==
    LET fetched(el) == el \in DOMAIN dt
    IN  SelectSeq(u, fetched)

Select(dt, keys, columns) ==
    [k \in Range(keys) |-> SelectFirstValidColumn(dt[k], columns)]

PriceSel(dt, keys) == Select(dt, keys, <<"Adj. Close", "Close", "Value">>)
OpenSel(dt, keys) == Select(dt, keys, <<"Open">>)
CloseSel(dt, keys) == Select(dt, keys, <<"Close">>)
VolumeSel(dt, keys) == Select(dt, keys, <<"Adj. Volume", "Volume">>)

\* DataFrame.from_dict raises ValueError for one of the four frames.
ExtractValueError(u, dt) ==
    LET keys == Keys(u, dt)
    IN  \/ AllScalar(keys, PriceSel(dt, keys))
        \/ AllScalar(keys, OpenSel(dt, keys))
        \/ AllScalar(keys, CloseSel(dt, keys))
        \/ AllScalar(keys, VolumeSel(dt, keys))

\* prices[self.risk_free_symbol] raises KeyError.
ExtractKeyError(u, dt, rf) == rf \notin Range(Keys(u, dt))

ExtractPrices(u, dt, rf) ==
    LET keys == Keys(u, dt)
    IN  FixRiskFree(FromDict(keys, PriceSel(dt, keys)), rf)

ExtractSigmas(u, dt) ==
    LET keys == Keys(u, dt)
    IN  Sigmas(FromDict(keys, OpenSel(dt, keys)), FromDict(keys, CloseSel(dt, keys)))

ExtractVolumes(u, dt) ==
    LET keys == Keys(u, dt)
    IN  FromDict(keys, VolumeSel(dt, keys))

Raise(e) ==
    /\ pc' = "raised"
    /\ raised' = e
    /\ UNCHANGED <<universe, risk_free_symbol, realized, i, data,
                   prices, sigmas, volumes, returns, life>>

Extract ==
    /\ pc = "download" /\ i > Len(universe)
    /\ \/ /\ ExtractValueError(universe, data)
          /\ Raise("ValueError")
       \/ /\ ~ExtractValueError(universe, data)
          /\ ExtractKeyError(universe, data, risk_free_symbol)
          /\ Raise("KeyError")
       \/ /\ ~ExtractValueError(universe, data)
          /\ ~ExtractKeyError(universe, data, risk_free_symbol)
          /\ prices' = ExtractPrices(universe, data, risk_free_symbol)
          /\ sigmas' = ExtractSigmas(universe, data)
          /\ volumes' = ExtractVolumes(universe, data)
          /\ pc' = "filter_assets"
          /\ UNCHANGED <<universe, risk_free_symbol, realized, i, data, returns, raised, life>>

\* ------------------------------------------------------------- filtering
FilterAssets ==
    /\ pc = "filter_assets"
    /\ LET bad_assets == BadAssetsNaN(prices)
       IN  /\ prices' = DropColumns(prices, bad_assets)
           /\ sigmas' = DropColumns(sigmas, bad_assets)
           /\ volumes' = DropColumns(volumes, bad_assets)
    /\ pc' = "filter_days"
    /\ UNCHANGED <<universe, risk_free_symbol, realized, i, data, returns, raised, life>>

\* The report of the removed days looks each bad day up in the three row
\* counts: prices.isnull().sum(1)[bad_days].  A day that is no row of one of
\* them is a missing label, which raises KeyError in pandas >= 1.0 and is
\* reindexed in earlier versions.
MissingLabel(bad_days) ==
    \/ ~(bad_days \subseteq prices.index)
    \/ ~(bad_days \subseteq volumes.index)
    \/ ~(bad_days \subseteq sigmas.index)

FilterDays ==
    /\ pc = "filter_days"
    /\ LET bad_days == BadDays(prices, sigmas, volumes)
       IN  \/ /\ MissingLabel(bad_days)
              /\ Raise("KeyError")
           \/ /\ prices' = DropRows(prices, bad_days)
              /\ sigmas' = DropRows(sigmas, bad_days)
              /\ volumes' = DropRows(volumes, bad_days)
              /\ pc' = "fill"
              /\ UNCHANGED <<universe, risk_free_symbol, realized, i, data, returns, raised, life>>

\* forward fill, then drop the first row
FillGaps ==
    /\ pc = "fill"
    /\ prices' = DropFirstRow(Ffill(prices))
    /\ sigmas' = DropFirstRow(Ffill(sigmas))
    /\ volumes' = DropFirstRow(Ffill(volumes))
    /\ pc' = "returns"
    /\ UNCHANGED <<universe, risk_free_symbol, realized, i, data, returns, raised, life>>

\* dollar volumes and returns
ComputeReturns ==
    /\ pc = "returns"
    /\ volumes' = DollarVolumes(volumes, prices)
    /\ returns' = Returns(prices)
    /\ pc' = "filter_returns"
    /\ UNCHANGED <<universe, risk_free_symbol, realized, i, data, prices, sigmas, raised, life>>

FilterReturns ==
    /\ pc = "filter_returns"
    /\ LET bad_assets == BadAssetsReturns(returns)
       IN  /\ prices' = DropColumns(prices, bad_assets)
           /\ sigmas' = DropColumns(sigmas, bad_assets)
           /\ volumes' = DropColumns(volumes, bad_assets)
           /\ returns' = DropColumns(returns, bad_assets)
    /\ pc' = "store"
    /\ UNCHANGED <<universe, risk_free_symbol, realized, i, data, raised, life>>

\* remove USDOLLAR except from returns, and store
MkRealized(dt, p, r, s, v) ==
    [data |-> dt, prices |-> p, returns |-> r, sigmas |-> s, volumes |-> v]

Store ==
    /\ pc = "store"
    /\ prices' = DropLastColumn(prices)
    /\ sigmas' = DropLastColumn(sigmas)
    /\ volumes' = DropLastColumn(volumes)
    /\ realized' = MkRealized(data, prices', returns, sigmas', volumes')
    /\ pc' = "done"
    /\ UNCHANGED <<universe, risk_free_symbol, i, data, returns, raised, life>>

\* ------------------------------------------------------------- the whole call
\* _fetch_return_data from the end of the download loop on, as one value:
\* the exception raised ("none": it returned True) and the five entries it
\* stored in self.realized.  strict: the version of pandas raises on a
\* missing label.
Filtered(u, dt, rf) ==
    LET p0 == ExtractPrices(u, dt, rf)
        bad == BadAssetsNaN(p0)
    IN  [prices |-> DropColumns(p0, bad),
         sigmas |-> DropColumns(ExtractSigmas(u, dt), bad),
         volumes |-> DropColumns(ExtractVolumes(u, dt), bad)]

Cleaned(f, bad_days) ==
    LET p == DropFirstRow(Ffill(DropRows(f.prices, bad_days)))
        s == DropFirstRow(Ffill(DropRows(f.sigmas, bad_days)))
        v == DropFirstRow(Ffill(DropRows(f.volumes, bad_days)))
        r == Returns(p)
        bad_assets == BadAssetsReturns(r)
    IN  [prices |-> DropLastColumn(DropColumns(p, bad_assets)),
         returns |-> DropColumns(r, bad_assets),
         sigmas |-> DropLastColumn(DropColumns(s, bad_assets)),
         volumes |-> DropLastColumn(DropColumns(DollarVolumes(v, p), bad_assets))]

FetchReturnData(u, dt, rf, strict) ==
    IF ExtractValueError(u, dt) THEN [raised |-> "ValueError", realized |-> EmptyDict]
    ELSE IF ExtractKeyError(u, dt, rf) THEN [raised |-> "KeyError", realized |-> EmptyDict]
    ELSE LET f == Filtered(u, dt, rf)
             bad_days == BadDays(f.prices, f.sigmas, f.volumes)
         IN  IF /\ strict
                /\ \/ ~(bad_days \subseteq f.prices.index)
                   \/ ~(bad_days \subseteq f.volumes.index)
                   \/ ~(bad_days \subseteq f.sigmas.index)
             THEN [raised |-> "KeyError", realized |-> EmptyDict]
             ELSE LET c == Cleaned(f, bad_days)
                  IN  [raised |-> "none",
                       realized |-> MkRealized(dt, c.prices, c.returns, c.sigmas, c.volumes)]

Next ==
    \/ DownloadSkip \/ DownloadNone \/ DownloadTable
    \/ Extract \/ FilterAssets \/ FilterDays \/ FillGaps
    \/ ComputeReturns \/ FilterReturns \/ Store

Spec == Init /\ [][Next]_vars

\* ------------------------------------------------------------- lifecycle
\* The calls a run makes on the model, and the days it spans.
MaxCalls == 3
MaxDay == 2

\* The configurations a model is constructed from.
AlphaConfigs ==
    { [name |-> "m1", universe |-> <<"A", "RF">>,
       model |-> [start_date |-> 1, end_date |-> VarRows + 1]],
      [name |-> "m1", universe |-> <<"A", "B", "RF">>,
       model |-> [start_date |-> 2, end_date |-> VarRows + 2]],
      [name |-> "m2", universe |-> <<"A", "RF">>,
       model |-> [start_date |-> 1, end_date |-> VarRows + 1]] }

\* What the sources return during a refresh: a table or None per ticker,
\* and the factor table (its version) or an error.
LifeTablesFor(ticker) ==
    CASE ticker = "A" -> {<<MkTable("ohlcv", "none", {})>>, <<MkTable("ohlcv", "lo", {VarRows})>>}
      [] ticker = "B" -> {<<MkTable("ohlcv", "none", {})>>}
      [] ticker = "RF" -> {<<MkTable("rate", "none", {})>>, <<>>}

Fetched(u, c) ==
    {[t \in {x \in Range(u) : got[x] # <<>>} |-> Get(got[t][1], c.start_date, c.end_date)] :
        got \in {g \in [Range(u) -> UNION {LifeTablesFor(t) : t \in Range(u)}] :
                   \A t \in Range(u) : g[t] \in LifeTablesFor(t)}}

FactorVersions == {1}
\* ds[0] with its index turned to timestamps
FactorFrame(v, c) ==
    [columns |-> <<"Mkt-RF", "SMB">>,
     index |-> c.start_date..c.end_date,
     at |-> [f \in {"Mkt-RF", "SMB"} |-> [d \in c.start_date..c.end_date |-> <<v>>]]]

\* self.filename: data_dir + 'model_' + name + '_' + today's %Y%m%d + '.mdl'
Filename(nm, day) == <<"model_", nm, "_", day, ".mdl">>

\* pickle.dump(self.__dict__), and what load() puts back
Pickled(nm, c, u, rf, rl) ==
    [name |-> nm, cfg |-> c, universe |-> u, risk_free_symbol |-> rf, realized |-> rl]

Put(fs, fname, snapshot) ==
    [f \in DOMAIN fs \cup {fname} |-> IF f = fname THEN snapshot ELSE fs[f]]

\* A fetch path that never saves, and one that saves whatever happened.
FilesAfterFetch_Never(fs, fname, snapshot, failed) == fs
FilesAfterFetch_Always(fs, fname, snapshot, failed) == Put(fs, fname, snapshot)

\* The files after _fetch_data on the fetch path: save() is reached only
\* when neither fetch raised.
FilesAfterFetch(fs, fname, snapshot, failed) ==
    IF failed THEN fs ELSE Put(fs, fname, snapshot)

\* self.realized[k] = v for each entry of rl
Assigned(old, rl) ==
    [k \in DOMAIN old \cup DOMAIN rl |-> IF k \in DOMAIN rl THEN rl[k] ELSE old[k]]

\* _fetch_return_data on every input of the lifecycle: what a configuration
\* and the data source's answers make it raise or store, under either
\* version of pandas.
ReturnData ==
    UNION {{[universe |-> c.universe, risk_free_symbol |-> "RF", cfg |-> c.model,
             result |-> FetchReturnData(c.universe, dt, "RF", strict)] :
               dt \in Fetched(c.universe, c.model), strict \in BOOLEAN} : c \in AlphaConfigs}

LifeFrame == <<pc, i, data, prices, sigmas, volumes, returns, raised>>

\* Model(config): a new instance, the files of earlier ones still there.
Construct ==
    /\ last.n < MaxCalls
    /\ \E config \in AlphaConfigs :
         /\ name' = config.name
         /\ cfg' = config.model
         /\ universe' = config.universe
    /\ risk_free_symbol' = "RF"
    /\ realized' = EmptyDict
    /\ last' = Call(today, last.n + 1, "__init__", "none", 0, 0)
    /\ UNCHANGED <<today, files, LifeFrame>>

Save ==
    /\ last.n < MaxCalls
    /\ files' = Put(files, Filename(name, today),
                    Pickled(name, cfg, universe, risk_free_symbol, realized))
    /\ last' = Call(today, last.n + 1, "save", "none", 0, 0)
    /\ UNCHANGED <<universe, risk_free_symbol, realized, name, cfg, today, LifeFrame>>

\* self.__dict__.clear(); self.__dict__.update(tmp_dict); self.cfg = cfg
Restore(snapshot) ==
    /\ name' = snapshot.name
    /\ universe' = snapshot.universe
    /\ risk_free_symbol' = snapshot.risk_free_symbol
    /\ realized' = snapshot.realized
    /\ cfg' = cfg

Load ==
    /\ last.n < MaxCalls
    /\ IF Filename(name, today) \in DOMAIN files
       THEN /\ Restore(files[Filename(name, today)])
            /\ last' = Call(today, last.n + 1, "load", "True", 0, 0)
       ELSE /\ last' = Call(today, last.n + 1, "load", "False", 0, 0)
            /\ UNCHANGED <<universe, risk_free_symbol, realized, name, cfg>>
    /\ UNCHANGED <<today, files, LifeFrame>>

\* The tickers the download loop asks the data source for.
Asked(u) == Cardinality(Range(u))

FetchData(force) ==
    /\ last.n < MaxCalls
    /\ IF ~force /\ Filename(name, today) \in DOMAIN files
       THEN /\ Restore(files[Filename(name, today)])
            /\ last' = Call(today, last.n + 1, "_fetch_data", "True", 0, 0)
            /\ UNCHANGED files
       ELSE \E run \in ReturnData, factor \in FactorVersions \cup {0} :
              /\ run.universe = universe
              /\ run.risk_free_symbol = risk_free_symbol
              /\ run.cfg = cfg
              /\ LET r == run.result
                  stored == Assigned(realized, r.realized)
                 IN  /\ realized' =
                          IF r.raised # "none" THEN realized
                          ELSE IF factor = 0 THEN stored
                          ELSE Assigned(stored, [ff_returns |-> FactorFrame(factor, cfg)])
                     /\ files' = FilesAfterFetch(files, Filename(name, today),
                                   Pickled(name, cfg, universe, risk_free_symbol, realized'),
                                   r.raised # "none" \/ factor = 0)
                     /\ last' = Call(today, last.n + 1, "_fetch_data",
                                     IF r.raised # "none" THEN r.raised
                                     ELSE IF factor = 0 THEN "RemoteDataError" ELSE "True",
                                     Asked(universe),
                                     IF r.raised # "none" THEN 0 ELSE 1)
              /\ UNCHANGED <<universe, risk_free_symbol, name, cfg>>
    /\ UNCHANGED <<today, LifeFrame>>

Refresh == FetchData(FALSE)
ForcedRefresh == FetchData(TRUE)

\* The calendar date changes.
Tick ==
    /\ today < MaxDay
    /\ today' = today + 1
    /\ UNCHANGED <<universe, risk_free_symbol, realized, name, cfg, files, last, LifeFrame>>

LifeInit ==
    /\ \E config \in AlphaConfigs :
         /\ name = config.name
         /\ cfg = config.model
         /\ universe = config.universe
    /\ risk_free_symbol = "RF"
    /\ realized = EmptyDict
    /\ pc = "idle"
    /\ i = 1
    /\ data = EmptyDict
    /\ prices = EmptyFrame
    /\ sigmas = EmptyFrame
    /\ volumes = EmptyFrame
    /\ returns = EmptyFrame
    /\ raised = "none"
    /\ today = 1
    /\ files = EmptyDict
    /\ last = Call(1, 0, "__init__", "none", 0, 0)

LifeNext == Construct \/ Save \/ Load \/ Refresh \/ ForcedRefresh \/ Tick

LifeSpec == LifeInit /\ [][LifeNext]_vars

\* ------------------------------------------------------------- properties
ColSet(df) == Range(df.columns)
HasNull(df) == \E c \in ColSet(df) : \E d \in df.index : IsNull(df.at[c][d])
Max0(n) == IF n < 0 THEN 0 ELSE n
Rest(S) == IF S = {} THEN {} ELSE S \ {MinOf(S)}

\* The prices as extracted (before any filter), recomputed from the fetched
\* tables, and the three frames as they enter the per-day filter.
Prices0 == ExtractPrices(universe, data, risk_free_symbol)
Frames1 ==
    LET p0 == Prices0
        bad == BadAssetsNaN(p0)
    IN  [prices |-> DropColumns(p0, bad),
         sigmas |-> DropColumns(ExtractSigmas(universe, data), bad),
         volumes |-> DropColumns(ExtractVolumes(universe, data), bad)]

\* A date of frame df on which more than 90% of n cells are missing.
Flagged(df, n, d) ==
    d \in df.index /\ 10 * Cardinality({c \in ColSet(df) : df.at[c][d] = NaN}) > 9 * n
FlaggedDays(f1) ==
    {d \in Dates : \/ Flagged(f1.sigmas, Len(f1.prices.columns), d)
                   \/ Flagged(f1.prices, Len(f1.prices.columns), d)
                   \/ Flagged(f1.volumes, Len(f1.prices.columns), d)}

\* More than 2% of the column's cells are missing.
MissingOver2(df, c) ==
    Cardinality({d \in df.index : df.at[c][d] = NaN}) * 50 > Cardinality(df.index)

\* C1: in every dataset produced, the risk-free identifier is a column of
\* returns and of none of prices, sigmas, volumes, and the exclusion step
\* removes no other instrument (the columns of returns other than the
\* risk-free one are all still columns of prices).
C1_RiskFreeOnlyInReturns ==
    pc = "done" =>
        /\ risk_free_symbol \in ColSet(realized.returns)
        /\ risk_free_symbol \notin ColSet(realized.prices)
        /\ risk_free_symbol \notin ColSet(realized.sigmas)
        /\ risk_free_symbol \notin ColSet(realized.volumes)
        /\ ColSet(realized.returns) \ {risk_free_symbol} \subseteq ColSet(realized.prices)

\* C2: in every dataset produced, prices, sigmas and volumes have the same
\* columns and the same row index.
C2_Aligned ==
    pc = "done" =>
        /\ realized.prices.columns = realized.sigmas.columns
        /\ realized.prices.columns = realized.volumes.columns
        /\ realized.prices.index = realized.sigmas.index
        /\ realized.prices.index = realized.volumes.index

\* C3: in every dataset produced, no cell of prices, sigmas or volumes is
\* missing.  Stated for the universes that list the risk-free identifier
\* last, in which the exclusion step removes the risk-free column.
C3_NoMissing ==
    (pc = "done" /\ universe[Len(universe)] = risk_free_symbol) =>
        /\ ~HasNull(realized.prices)
        /\ ~HasNull(realized.sigmas)
        /\ ~HasNull(realized.volumes)

\* C4 (as claimed): an instrument is a column of the final prices only if at
\* most 2% of its extracted prices are missing, and every instrument that is
\* not a column of the final prices has more than 2% missing.
C4_AsClaimed ==
    pc = "done" =>
        LET p0 == Prices0
        IN  \A c \in ColSet(p0) :
                /\ c \in ColSet(realized.prices) => ~MissingOver2(p0, c)
                /\ c \notin ColSet(realized.prices) => MissingOver2(p0, c)

\* C4 (amended): the per-instrument filter keeps exactly the instruments with
\* at most 2% of their extracted prices missing (2% itself is kept), and
\* every column of the final prices is such an instrument; an instrument at
\* or under 2% can still be removed by the later steps.
C4_Threshold ==
    pc \in {"filter_days", "done"} =>
        LET p0 == Prices0
        IN  /\ pc = "filter_days" =>
                 \A c \in ColSet(p0) : c \in ColSet(prices) <=> ~MissingOver2(p0, c)
            /\ pc = "done" =>
                 \A c \in ColSet(realized.prices) :
                     c \in ColSet(p0) /\ ~MissingOver2(p0, c)

\* C4 witness: the filter has run on an instrument with exactly 2% missing,
\* kept to the end, and on one with more, dropped.
C4_Witness ==
    /\ pc = "done"
    /\ LET p0 == Prices0
       IN  /\ \E c \in ColSet(realized.prices) :
                Cardinality({d \in p0.index : IsNull(p0.at[c][d])}) * 50
                    = Cardinality(p0.index)
           /\ \E c \in ColSet(p0) : MissingOver2(p0, c)

\* A return below -0.5 or above 2.0.
Dubious(r) == r # NaN /\ (2 * r[1] < -r[2] \/ r[1] > 2 * r[2])
HasDubious(df, c) == \E d \in df.index : Dubious(df.at[c][d])

\* C5: the dubious-return filter removes every instrument with a return
\* below -0.5 or above 2.0 from prices, sigmas, volumes and returns, touches
\* no other column, and the returns of the dataset produced hold no such
\* return in any column.
C5_FilterStep ==
    pc = "filter_returns" =>
        \A c \in ColSet(returns) :
            IF HasDubious(returns, c)
            THEN /\ c \notin ColSet(prices') /\ c \notin ColSet(sigmas')
                 /\ c \notin ColSet(volumes') /\ c \notin ColSet(returns')
            ELSE /\ c \in ColSet(returns') /\ returns'.at[c] = returns.at[c]
                 /\ (c \in ColSet(prices) => c \in ColSet(prices'))
C5_DubiousRemoved ==
    /\ [][C5_FilterStep]_vars
    /\ [](pc = "done" =>
            /\ \A c \in ColSet(realized.returns) : ~HasDubious(realized.returns, c)
            /\ ColSet(realized.prices) \subseteq ColSet(realized.returns)
            /\ ColSet(realized.sigmas) \subseteq ColSet(realized.returns)
            /\ ColSet(realized.volumes) \subseteq ColSet(realized.returns))

\* C5 witness: a dataset produced from which the filter has removed the
\* risk-free instrument, which had passed the missing-data filter, and
\* left another.
C5_Witness ==
    /\ pc = "done"
    /\ risk_free_symbol \in ColSet(Frames1.prices)
    /\ risk_free_symbol \notin ColSet(realized.returns)
    /\ ColSet(realized.returns) # {}

\* C7: when the data source has returned no table for an identifier of the
\* universe, _fetch_return_data does not fail, and the dataset produced
\* holds the identifier nowhere.
C7_MissingTableNotFatal ==
    (i > Len(universe) /\ \E t \in Range(universe) : t \notin DOMAIN data) =>
        /\ raised = "none"
        /\ pc = "done" =>
             \A t \in Range(universe) \ DOMAIN data :
                 /\ t \notin DOMAIN realized.data
                 /\ t \notin ColSet(realized.prices) \cup ColSet(realized.returns)
                 /\ t \notin ColSet(realized.sigmas) \cup ColSet(realized.volumes)

DatasetKeys == {"data", "prices", "returns", "sigmas", "volumes", "ff_returns"}

\* C6: when the last call was a _fetch_data that returned True on this
\* calendar date, a _fetch_data(force=False) that follows it for the same
\* model returns True from the load path without a call to the data source
\* or to the factor source, and leaves realized as the first call left it.
C6_SecondRefresh ==
    [][(/\ last.op = "_fetch_data" /\ last.result = "True" /\ last.day = today
        /\ Refresh)
       => /\ last'.op = "_fetch_data" /\ last'.result = "True"
          /\ last'.ds_calls = 0 /\ last'.ff_calls = 0
          /\ realized' = realized
          /\ files' = files]_vars

\* C6 witness: the second call of a model's life, a _fetch_data that came
\* back from the load path with the full dataset the first call fetched and
\* saved on the same date.
C6_Witness ==
    /\ last.n = 2 /\ last.op = "_fetch_data" /\ last.result = "True"
    /\ last.ds_calls = 0 /\ last.ff_calls = 0
    /\ today = 1
    /\ DatasetKeys \subseteq DOMAIN realized
    /\ Filename(name, today) \in DOMAIN files
    /\ files[Filename(name, today)].realized = realized

\* C8: a _fetch_data out of which the factor fetch's error propagates
\* leaves every persisted file as it was, the one of this model name and
\* date included (absent, or the earlier snapshot).
C8_FactorFailureNotPersisted ==
    [][(/\ last'.n = last.n + 1 /\ last'.op = "_fetch_data"
        /\ last'.result = "RemoteDataError")
       => files' = files]_vars

\* C8 witness: the factor fetch has raised after the return data was
\* fetched, and the file of this model name and date still holds an earlier
\* snapshot, which differs from the realized in memory.
C8_Witness ==
    /\ last.op = "_fetch_data" /\ last.result = "RemoteDataError"
    /\ last.ds_calls > 0 /\ last.ff_calls = 1
    /\ last.day = today
    /\ Filename(name, today) \in DOMAIN files
    /\ DatasetKeys \subseteq DOMAIN files[Filename(name, today)].realized
    /\ files[Filename(name, today)].realized # realized

\* C9: whenever the last call is a _fetch_data that returned True, realized
\* holds every entry of a dataset.
C9_ReadyHasDataset ==
    (last.op = "_fetch_data" /\ last.result = "True") =>
        DatasetKeys \subseteq DOMAIN realized

====
